---- MODULE Spec2Model ----
(***************************************************************************)
(* State-machine model of meson_analysis.correlator.CorrelatorEnsemble:    *)
(* the append / freeze / get / get_array / NT / is_consistent data model.  *)
(***************************************************************************)
EXTENDS Integers, Sequences, FiniteSets, TLC

\* ------------------------------------------------------------------ bounds
\* Records appended in the life-cycle, selection and aliasing specifications.
MaxRecords == 3
MaxSelected == 2
MaxAliased == 2
\* Longest correlator handed to append.
MaxLen == 2

\* ------------------------------------------------------------ input domains
\* Field names of the Correlator namedtuple that carry provenance.
Fields == {"stream_name", "cfg_index", "source_type", "connection_type",
           "channel", "valence_mass"}

\* The loop of get() with channel left out of it.
DisambiguatingFieldsNoChannel == <<"source_type", "connection_type", "valence_mass">>

\* The four fields get() requires to collapse to one value.
DisambiguatingFields == <<"source_type", "connection_type", "channel", "valence_mass">>

\* Python's ordering of the strings used as sort-key values (code-point order).
StrOrder ==
  <<"DEFAULT_SEMWALL", "POINT", "SINGLET", "TRIPLET", "run1", "runA", "runB">>

StrRank(s) == CHOOSE i \in 1..Len(StrOrder) : StrOrder[i] = s

\* A reference provenance and, per field, the other values a record may carry.
\* valence_mass "None" is what read_single_meson_file passes when the
\* metadata holds no fermion_mass; the other masses are floats.
Base == [stream_name |-> "runA", cfg_index |-> 1,
         source_type |-> "DEFAULT_SEMWALL", connection_type |-> "TRIPLET",
         channel |-> "g5", valence_mass |-> "0.1"]

Variants ==
  { [Base EXCEPT !.stream_name = "runB"],
    [Base EXCEPT !.cfg_index = 2],
    [Base EXCEPT !.source_type = "POINT"],
    [Base EXCEPT !.connection_type = "SINGLET"],
    [Base EXCEPT !.channel = "gk"],
    [Base EXCEPT !.valence_mass = "0.2"],
    [Base EXCEPT !.valence_mass = "None"] }

\* Provenances offered to append in the selection specification.
Provenances == {Base} \cup Variants

\* Provenances offered to append in the life-cycle specification.
LifecycleProvenances ==
  { Base, [Base EXCEPT !.channel = "gk"], [Base EXCEPT !.valence_mass = "None"] }

\* What the caller passes as the record's correlator.
Kinds == {"list", "ndarray"}

\* The k-th measurement of length n handed to append: distinct per call.
Series(k, n) == [i \in 1..n |-> 10 * k + i]

VARIABLES
  correlators,  \* self.correlators: the records, each holding a heap address
  frozen,       \* self._frozen
  metadata,     \* self.metadata (the "NT" key)
  heap,         \* sequence objects: address -> contents
  caller,       \* addresses of the sequence objects the caller passed in
  ret,          \* outcome of the last call
  parser        \* the local variables of a reader while it scans its input

vars == <<correlators, frozen, metadata, heap, caller, ret, parser>>

\* ------------------------------------------------------------------ append
\* np.asarray: a list is converted into a new array; an array is returned as is.
asarray(h, addr, kind) ==
  IF kind = "ndarray"
    THEN [heap |-> h, addr |-> addr]
    ELSE [heap |-> Append(h, h[addr]), addr |-> Len(h) + 1]

\* Variants of the checks of append, each a slip the checks could suffer.
\* The length is compared before the frozen flag is looked at.
AppendErrorLengthFirst(fr, recs, h, n) ==
  IF recs # <<>> /\ n # Len(h[recs[1].correlator]) THEN "LengthMismatch"
  ELSE IF fr THEN "FrozenError"
  ELSE "none"

\* Only a longer correlator is rejected.
AppendErrorOnlyLonger(fr, recs, h, n) ==
  IF fr THEN "FrozenError"
  ELSE IF recs # <<>> /\ n > Len(h[recs[1].correlator]) THEN "LengthMismatch"
  ELSE "none"

\* The length is not compared at all.
AppendErrorNoLength(fr, recs, h, n) ==
  IF fr THEN "FrozenError" ELSE "none"

\* The frozen flag is not looked at.
AppendErrorNoFrozen(fr, recs, h, n) ==
  IF recs # <<>> /\ n # Len(h[recs[1].correlator]) THEN "LengthMismatch"
  ELSE "none"

\* The checks of append, in order.
AppendError(fr, recs, h, n) ==
  IF fr THEN "FrozenError"
  ELSE IF recs # <<>> /\ n # Len(h[recs[1].correlator]) THEN "LengthMismatch"
  ELSE "none"

\* The record is stored before the length is compared.
appendStoresFirst(prov, kind, n) ==
  LET e == AppendError(frozen, correlators, heap, n)
      arg  == Len(heap) + 1
      h1   == Append(heap, Series(Len(correlators) + 1, n))
      conv == asarray(h1, arg, kind)
      rec  == [stream_name |-> prov.stream_name,
               cfg_index |-> prov.cfg_index,
               source_type |-> prov.source_type,
               connection_type |-> prov.connection_type,
               channel |-> prov.channel,
               valence_mass |-> prov.valence_mass,
               correlator |-> conv.addr]
  IN IF e = "FrozenError"
       THEN /\ ret' = [op |-> "append", err |-> e, len |-> n]
            /\ UNCHANGED <<correlators, frozen, metadata, heap, caller>>
       ELSE /\ correlators' = Append(correlators, rec)
            /\ heap' = conv.heap
            /\ caller' = Append(caller, arg)
            /\ ret' = [op |-> "append", err |-> e, len |-> n]
            /\ UNCHANGED <<frozen, metadata>>

append(prov, kind, n) ==
  LET e == AppendError(frozen, correlators, heap, n) IN
  IF e # "none"
    THEN /\ ret' = [op |-> "append", err |-> e, len |-> n]
         /\ UNCHANGED <<correlators, frozen, metadata, heap, caller>>
    ELSE LET arg  == Len(heap) + 1
             h1   == Append(heap, Series(Len(correlators) + 1, n))
             conv == asarray(h1, arg, kind)
             rec  == [stream_name |-> prov.stream_name,
                      cfg_index |-> prov.cfg_index,
                      source_type |-> prov.source_type,
                      connection_type |-> prov.connection_type,
                      channel |-> prov.channel,
                      valence_mass |-> prov.valence_mass,
                      correlator |-> conv.addr]
         IN /\ correlators' = Append(correlators, rec)
            /\ heap' = conv.heap
            /\ caller' = Append(caller, arg)
            /\ ret' = [op |-> "append", err |-> "none", len |-> n]
            /\ UNCHANGED <<frozen, metadata>>

\* ------------------------------------------------------------------ freeze
\* pd.DataFrame(records): a valence_mass column mixing floats and None is
\* inferred as float64, None becoming NaN; an all-None column keeps None.
DataFrame(recs) ==
  LET masses == {recs[i].valence_mass : i \in 1..Len(recs)}
      mixed  == "None" \in masses /\ masses \ {"None"} # {}
  IN [i \in 1..Len(recs) |->
        IF mixed /\ recs[i].valence_mass = "None"
          THEN [recs[i] EXCEPT !.valence_mass = "nan"]
          ELSE recs[i]]

\* A sort on (stream_name, cfg_index) alone.
KeyLessTwoKeys(a, b) ==
  \/ StrRank(a.stream_name) < StrRank(b.stream_name)
  \/ /\ a.stream_name = b.stream_name
     /\ a.cfg_index < b.cfg_index

\* Strict lexicographic order on (stream_name, cfg_index, source_type, connection_type).
KeyLess(a, b) ==
  \/ StrRank(a.stream_name) < StrRank(b.stream_name)
  \/ /\ a.stream_name = b.stream_name
     /\ \/ a.cfg_index < b.cfg_index
        \/ /\ a.cfg_index = b.cfg_index
           /\ \/ StrRank(a.source_type) < StrRank(b.source_type)
              \/ /\ a.source_type = b.source_type
                 /\ StrRank(a.connection_type) < StrRank(b.connection_type)

\* A row is put before the rows of equal key: the sort is not stable.
RECURSIVE InsertRowBeforeEqual(_, _)
InsertRowBeforeEqual(r, s) ==
  IF s = <<>> THEN <<r>>
  ELSE IF ~KeyLess(Head(s), r) THEN <<r>> \o s
  ELSE <<Head(s)>> \o InsertRowBeforeEqual(r, Tail(s))

\* Insert r into the sorted s behind every row that does not sort after it.
RECURSIVE InsertRow(_, _)
InsertRow(r, s) ==
  IF s = <<>> THEN <<r>>
  ELSE IF KeyLess(r, Head(s)) THEN <<r>> \o s
  ELSE <<Head(s)>> \o InsertRow(r, Tail(s))

\* DataFrame.sort_values on several columns: a stable lexicographic sort.
RECURSIVE sort_values(_)
sort_values(s) ==
  IF s = <<>> THEN <<>>
  ELSE InsertRow(s[Len(s)], sort_values(SubSeq(s, 1, Len(s) - 1)))

freeze ==
  IF correlators = <<>>
    THEN \* DataFrame([]) has no columns: sort_values raises before any assignment
         /\ ret' = [op |-> "freeze", err |-> "KeyError"]
         /\ UNCHANGED <<correlators, frozen, metadata, heap, caller>>
    ELSE /\ correlators' = sort_values(DataFrame(correlators))
         /\ frozen' = TRUE
         /\ ret' = [op |-> "freeze", err |-> "none", was_frozen |-> frozen]
         /\ UNCHANGED <<metadata, heap, caller>>

\* --------------------------------------------------------------------- get
\* pandas treats None and NaN as missing: an equality filter never selects them.
IsNA(v) == v \in {"None", "nan"}

\* subset[field] == value, on one row.
CellEquals(field, cell, value) ==
  IF field = "valence_mass" THEN cell = value /\ ~IsNA(cell) /\ ~IsNA(value)
  ELSE cell = value

\* A row kept as soon as one criterion holds for it.
MatchesAny(rec, criteria) ==
  \E field \in DOMAIN criteria : CellEquals(field, rec[field], criteria[field])

\* The row survives every filter of the loop over criteria.items().
Matches(rec, criteria) ==
  \A field \in DOMAIN criteria : CellEquals(field, rec[field], criteria[field])

Subset(recs, criteria) == SelectSeq(recs, LAMBDA r : Matches(r, criteria))

\* len(set(subset[field])): equal values collapse; every NaN read from a
\* float column is a float of its own and equals nothing, itself included.
SetSize(subset, field) ==
  Cardinality({subset[i][field] : i \in 1..Len(subset)} \ {"nan"})
  + Cardinality({i \in 1..Len(subset) : subset[i][field] = "nan"})

\* The fields whose value set holds more than one element.
MultipleValued(subset) ==
  {i \in 1..Len(DisambiguatingFields) : SetSize(subset, DisambiguatingFields[i]) > 1}

\* get without the frozen check.
GetErrorNoFrozen(fr, recs, criteria) ==
  IF MultipleValued(Subset(recs, criteria)) # {} THEN "AmbiguousSelection"
  ELSE "none"

GetError(fr, recs, criteria) ==
  IF ~fr THEN "NotFrozenError"
  ELSE IF MultipleValued(Subset(recs, criteria)) # {} THEN "AmbiguousSelection"
  ELSE "none"

\* subset[[stream_name, cfg_index, correlator]].set_index(...).correlator
Entries(subset) ==
  [i \in 1..Len(subset) |->
     [stream_name |-> subset[i].stream_name,
      cfg_index |-> subset[i].cfg_index,
      correlator |-> subset[i].correlator]]

GetValue(fr, recs, criteria) ==
  IF GetError(fr, recs, criteria) = "none" THEN Entries(Subset(recs, criteria)) ELSE <<>>

get(criteria) ==
  /\ ret' = [op |-> "get", err |-> GetError(frozen, correlators, criteria),
             criteria |-> criteria,
             val |-> GetValue(frozen, correlators, criteria)]
  /\ UNCHANGED <<correlators, frozen, metadata, heap, caller>>

\* np.asarray(self.get(**criteria).to_list()): a new dense array of the values.
get_array(criteria) ==
  LET got == GetValue(frozen, correlators, criteria) IN
  /\ ret' = [op |-> "get_array", err |-> GetError(frozen, correlators, criteria),
             criteria |-> criteria,
             val |-> [i \in 1..Len(got) |-> heap[got[i].correlator]]]
  /\ UNCHANGED <<correlators, frozen, metadata, heap, caller>>

\* ---------------------------------------------------------------------- NT
\* len of the first record's correlator (frozen: iloc[0], the first row).
NTValue(recs, h) == Len(h[recs[1].correlator])

NT ==
  /\ ret' = IF correlators = <<>>
              THEN [op |-> "NT", err |-> "IndexError"]
              ELSE [op |-> "NT", err |-> "none", val |-> NTValue(correlators, heap)]
  /\ UNCHANGED <<correlators, frozen, metadata, heap, caller>>

\* ----------------------------------------------------------- is_consistent
GroupKey(r) == <<r.source_type, r.connection_type, r.channel, r.valence_mass>>

\* DataFrame.value_counts(subset=[...]): dropna defaults to True, so rows
\* with a missing valence_mass are not counted.
value_counts(recs) ==
  LET kept == SelectSeq(recs, LAMBDA r : ~IsNA(r.valence_mass))
      keys == {GroupKey(kept[i]) : i \in 1..Len(kept)}
  IN [k \in keys |-> Cardinality({i \in 1..Len(kept) : GroupKey(kept[i]) = k})]

\* metadata.get("NT") != self.NT
NTMismatch(md, recs, h) == ~("NT" \in DOMAIN md /\ md["NT"] = NTValue(recs, h))

IsConsistentOutcome(fr, md, recs, h) ==
  IF recs = <<>> THEN [op |-> "is_consistent", err |-> "IndexError"]
  ELSE IF NTMismatch(md, recs, h)
    THEN [op |-> "is_consistent", err |-> "none", val |-> FALSE]
  ELSE IF fr
    THEN LET counts == value_counts(recs)
             range  == {counts[k] : k \in DOMAIN counts}
         IN IF range = {}
              THEN \* max() of an empty sequence
                   [op |-> "is_consistent", err |-> "ValueError"]
              ELSE [op |-> "is_consistent", err |-> "none",
                    val |-> (Cardinality(range) = 1)]
  ELSE [op |-> "is_consistent", err |-> "none", val |-> TRUE]

is_consistent ==
  /\ ret' = IsConsistentOutcome(frozen, metadata, correlators, heap)
  /\ UNCHANGED <<correlators, frozen, metadata, heap, caller>>

\* ---------------------------------------------------------------- metadata
\* metadata["NT"] = NT, as the parsers do while reading.
set_metadata(n) ==
  /\ metadata' = [k \in {"NT"} |-> n]
  /\ ret' = [op |-> "metadata", err |-> "none"]
  /\ UNCHANGED <<correlators, frozen, heap, caller>>

\* ------------------------------------------------------------------ caller
\* The caller overwrites element i of the j-th sequence object it passed in.
mutate(j, i) ==
  /\ j \in 1..Len(caller)
  /\ i \in 1..Len(heap[caller[j]])
  /\ heap' = [heap EXCEPT ![caller[j]][i] = 0]
  /\ ret' = [op |-> "mutate", err |-> "none"]
  /\ UNCHANGED <<correlators, frozen, metadata, caller>>

\* ------------------------------------------------------- criteria of get()
Restrict(p, F) == [f \in F |-> p[f]]

Disambiguating == {DisambiguatingFields[i] : i \in 1..Len(DisambiguatingFields)}

\* The field sets queried: everything, nothing, the four disambiguating
\* fields, and the four with one of them left open.
FieldSets ==
  {Fields, {}, Disambiguating} \cup {Disambiguating \ {f} : f \in Disambiguating}

Criteria == {Restrict(p, F) : p \in Provenances, F \in FieldSets}

LifecycleCriteria ==
  {Restrict(p, F) : p \in LifecycleProvenances, F \in {Fields, {"channel"}, {}}}

\* ----------------------------------------------------------- specification
\* ----------------------------------------------------------- specification
Init ==
  /\ correlators = <<>>
  /\ frozen = FALSE
  /\ metadata = <<>>
  /\ heap = <<>>
  /\ caller = <<>>
  /\ ret = [op |-> "init", err |-> "none"]
  /\ parser = [name |-> "none"]

\* Life cycle of one collection: every operation, few provenances.
Next ==
  /\ UNCHANGED parser
  /\ \/ /\ Len(correlators) < MaxRecords
        /\ \E p \in LifecycleProvenances, n \in 1..MaxLen : append(p, "ndarray", n)
     \/ freeze
     \/ \E c \in LifecycleCriteria : get(c)
     \/ \E c \in LifecycleCriteria : get_array(c)
     \/ NT
     \/ is_consistent
     \/ \E n \in 1..MaxLen : set_metadata(n)

Spec == Init /\ [][Next]_vars

\* Selection: records of every provenance, queried with every criteria set.
NextSelect ==
  /\ UNCHANGED parser
  /\ \/ /\ Len(correlators) < MaxSelected
        /\ \E p \in Provenances : append(p, "ndarray", MaxLen)
     \/ freeze
     \/ \E c \in Criteria : get(c)

SpecSelect == Init /\ [][NextSelect]_vars

\* A caller that keeps the sequence objects it passed in and writes to them.
NextAlias ==
  /\ UNCHANGED parser
  /\ \/ /\ Len(correlators) < MaxAliased
        /\ \E k \in Kinds, n \in 1..MaxLen : append(Base, k, n)
     \/ freeze
     \/ get(<<>>)
     \/ \E j \in 1..MaxAliased : mutate(j, 1)

SpecAlias == Init /\ [][NextAlias]_vars

\* ------------------------------------------------------------------ claims
\* The numeric series a record holds.
SeriesOf(rec) == heap[rec.correlator]

\* The records with their series written out.
Resolved == [i \in 1..Len(correlators) |->
               [correlators[i] EXCEPT !.correlator = heap[correlators[i].correlator]]]

RecordSet == {Resolved[i] : i \in 1..Len(correlators)}

\* The append call (1, 2, ...) that created the array at an address: the
\* caller's k-th object sits at caller[k], a converted copy right behind it.
Origin(addr) ==
  CHOOSE k \in 1..Len(caller) :
    caller[k] <= addr /\ (k = Len(caller) \/ caller[k + 1] > addr)

\* The series a record was appended with.
AppendedSeries(rec) == Series(Origin(rec.correlator), Len(heap[rec.correlator]))

\* The six provenance values a record was appended with (freeze may have
\* turned a None mass into NaN).
AppendedProvenance(rec) ==
  [f \in Fields |->
     IF f = "valence_mass" /\ rec[f] = "nan" THEN "None" ELSE rec[f]]

\* Entry j of a get result is the record at row i, unmodified.
IsEntryOf(entry, rec) ==
  /\ entry.stream_name = rec.stream_name
  /\ entry.cfg_index = rec.cfg_index
  /\ entry.correlator = rec.correlator
  /\ heap[entry.correlator] = AppendedSeries(rec)

\* The rows appended with exactly the six values of the criteria.
SameProvenance(criteria) ==
  {i \in 1..Len(correlators) : AppendedProvenance(correlators[i]) = criteria}

\* C1 as stated: after freeze, get with criteria equal to all six provenance
\* fields of an appended record returns exactly one entry, that record's series.
C1_RoundTripExactlyOne ==
  (frozen /\ ret.op = "get" /\ DOMAIN ret.criteria = Fields)
  => \A i \in SameProvenance(ret.criteria) :
       /\ ret.err = "none"
       /\ Len(ret.val) = 1
       /\ IsEntryOf(ret.val[1], correlators[i])

\* C1 as amended: get with all six provenance values as criteria succeeds and
\* returns one entry per appended record carrying those six values (none when
\* the valence_mass asked for is None), each entry being its record's series
\* as appended; so exactly one entry when no other record shares the values.
C1_RoundTrip ==
  (frozen /\ ret.op = "get" /\ DOMAIN ret.criteria = Fields)
  => LET same == IF ret.criteria.valence_mass = "None" THEN {}
                 ELSE SameProvenance(ret.criteria)
     IN /\ ret.err = "none"
        /\ Len(ret.val) = Cardinality(same)
        /\ \A i \in same :
             \E j \in 1..Len(ret.val) : IsEntryOf(ret.val[j], correlators[i])
        /\ \A j \in 1..Len(ret.val) :
             \E i \in same : IsEntryOf(ret.val[j], correlators[i])

\* Of two records held, get with the six values of one returned that one alone.
C1_Witness ==
  /\ frozen
  /\ Len(correlators) = 2
  /\ ret.op = "get"
  /\ DOMAIN ret.criteria = Fields
  /\ ret.err = "none"
  /\ Len(ret.val) = 1
  /\ \E i \in SameProvenance(ret.criteria) : IsEntryOf(ret.val[1], correlators[i])

\* C2: in every state reached after a successful freeze, an append call has
\* failed with the frozen-state error, whatever the record's length or fields.
C2_AppendAfterFreezeFails ==
  (frozen /\ ret.op = "append") => ret.err = "FrozenError"

\* An append on a frozen collection of a record of another length was refused
\* as frozen.
C2_Witness ==
  /\ frozen
  /\ ret.op = "append"
  /\ ret.err = "FrozenError"
  /\ ret.len # Len(SeriesOf(correlators[1]))

\* C3: on an open collection holding at least one record, an append of a
\* record whose correlator length differs from the first record's has failed
\* with the length-mismatch error.
C3_LengthMismatchRejected ==
  (/\ ~frozen
   /\ ret.op = "append"
   /\ correlators # <<>>
   /\ ret.len # Len(SeriesOf(correlators[1])))
  => ret.err = "LengthMismatch"

\* A shorter correlator was refused by an open collection holding several records.
C3_Witness ==
  /\ ~frozen
  /\ Len(correlators) >= 2
  /\ ret.op = "append"
  /\ ret.err = "LengthMismatch"
  /\ ret.len < Len(SeriesOf(correlators[1]))

\* C4: in every reachable state all records held by the collection have the
\* same correlator length.
C4_SameLength ==
  \A i, j \in 1..Len(correlators) :
    Len(SeriesOf(correlators[i])) = Len(SeriesOf(correlators[j]))

\* Several records are held and an append of another length has just failed.
C4_Witness ==
  /\ Len(correlators) >= 2
  /\ ret.op = "append"
  /\ ret.err = "LengthMismatch"

\* Values of a field in two rows are equal as Python compares them.
SameValue(a, b) == a = b /\ a # "nan"

\* The rows selected by the criteria of the last get.
Selected == SelectSeq(correlators, LAMBDA r : Matches(r, ret.criteria))

\* C5: on a frozen collection get fails with the ambiguous-selection error
\* whenever the matching records hold two or more distinct channel values, and
\* succeeds whenever they hold exactly one value for each of source_type,
\* connection_type, channel and valence_mass.
C5_AmbiguousSelection ==
  (frozen /\ ret.op = "get")
  => /\ (\E i, j \in 1..Len(Selected) : Selected[i].channel # Selected[j].channel)
        => ret.err = "AmbiguousSelection"
     /\ (/\ Selected # <<>>
         /\ \A f \in {"source_type", "connection_type", "channel", "valence_mass"} :
              \A i, j \in 1..Len(Selected) : SameValue(Selected[i][f], Selected[j][f]))
        => ret.err = "none"

\* Criteria fixing source, connection and mass matched records of two
\* channels, and get was refused.
C5_Witness ==
  /\ frozen
  /\ ret.op = "get"
  /\ DOMAIN ret.criteria = {"source_type", "connection_type", "valence_mass"}
  /\ Len(Selected) = 2
  /\ Selected[1].channel # Selected[2].channel
  /\ ret.err = "AmbiguousSelection"

\* C6: get and get_array on a collection that has not been frozen fail with
\* the not-frozen error, for any criteria and any number of records.
C6_GetBeforeFreezeFails ==
  (~frozen /\ ret.op \in {"get", "get_array"}) => ret.err = "NotFrozenError"

\* get_array with the full criteria of a held record was refused before freeze.
C6_Witness ==
  /\ ~frozen
  /\ correlators # <<>>
  /\ ret.op = "get_array"
  /\ ret.err = "NotFrozenError"
  /\ DOMAIN ret.criteria = Fields

\* C7: once frozen, every later call leaves the collection frozen and its set
\* of records unchanged.
C7_FreezeOneWay ==
  [][frozen => (frozen' /\ RecordSet' = RecordSet)]_vars

\* A frozen collection on which append has since been called.
C7_Witness ==
  /\ frozen
  /\ Len(correlators) >= 2
  /\ ret.op = "append"

\* The sort key of a row as a tuple of integers.
KeyTuple(r) ==
  <<StrRank(r.stream_name), r.cfg_index, StrRank(r.source_type),
    StrRank(r.connection_type)>>

LexLeq(a, b) ==
  \/ a = b
  \/ \E k \in 1..Len(a) : a[k] < b[k] /\ \A m \in 1..(k - 1) : a[m] = b[m]

\* val lists rows of recs in the order recs holds them.
InOrderOf(val, recs) ==
  \E pos \in [1..Len(val) -> 1..Len(recs)] :
    /\ \A j \in 1..Len(val) :
         /\ val[j].correlator = recs[pos[j]].correlator
         /\ val[j].stream_name = recs[pos[j]].stream_name
         /\ val[j].cfg_index = recs[pos[j]].cfg_index
    /\ \A j, k \in 1..Len(val) : j < k => pos[j] < pos[k]

\* C8: after freeze the records are held in non-decreasing lexicographic order
\* of (stream_name, cfg_index, source_type, connection_type), whatever the
\* order of the appends, and get returns its entries in that same order.
C8_FrozenSorted ==
  frozen =>
    /\ \A i, j \in 1..Len(correlators) :
         i < j => LexLeq(KeyTuple(correlators[i]), KeyTuple(correlators[j]))
    /\ (ret.op = "get" /\ ret.err = "none") => InOrderOf(ret.val, correlators)

\* freeze moved a later-appended record in front of an earlier one, and get
\* returned both.
C8_Witness ==
  /\ frozen
  /\ Len(correlators) = 2
  /\ correlators[1].correlator > correlators[2].correlator
  /\ ret.op = "get"
  /\ ret.err = "none"
  /\ Len(ret.val) = 2

\* The records of each (source_type, connection_type, channel, valence_mass) group.
GroupSizes ==
  {Cardinality({j \in 1..Len(correlators) :
                  GroupKey(correlators[j]) = GroupKey(correlators[i])}) :
     i \in 1..Len(correlators)}

\* C9: on a non-empty collection is_consistent does not raise, and returns
\* true exactly when metadata["NT"] equals the correlator length and, when
\* frozen, every distinct group has the same number of records.
C9_IsConsistent ==
  (ret.op = "is_consistent" /\ correlators # <<>>)
  => /\ ret.err = "none"
     /\ ret.val = (/\ "NT" \in DOMAIN metadata
                   /\ metadata["NT"] = Len(SeriesOf(correlators[1]))
                   /\ (frozen => Cardinality(GroupSizes) = 1))

\* C10: every record holds the series it was appended with, whatever the
\* caller has since written to the sequence objects it passed in, and get
\* returns that series.
C10_DefensiveCopy ==
  /\ \A i \in 1..Len(correlators) :
       SeriesOf(correlators[i]) = AppendedSeries(correlators[i])
  /\ (ret.op = "get" /\ ret.err = "none")
       => \A j \in 1..Len(ret.val) :
            heap[ret.val[j].correlator]
              = Series(Origin(ret.val[j].correlator), Len(heap[ret.val[j].correlator]))
\* ======================================================================
\* read_correlators_flexlatsim: the line-by-line state machine
\* ======================================================================
MaxLines == 4      \* lines of one input file
MaxIndex == 2      \* largest time index written on a value line

\* The translation table from raw state labels to channel names.
channels ==
  [s \in {"AA", "AP", "AV0", "V0P", "V0V0", "pscalar", "pvector", "scalar",
          "vector", "dsapcorr", "GGCorrTr1", "GGCorrTr4", "WICorr1tr1",
          "WICorr1tr4", "WICorr2tr1", "WICorr2tr4", "WICorr3tr1", "WICorr3tr4"}
     |-> CASE s = "pscalar" -> "g5"
           [] s = "scalar"  -> "id"
           [] s = "vector"  -> "gk"
           [] OTHER         -> s]

\* Decimal numerals and what int() makes of them.
Numerals == <<"0", "1", "2", "3", "4">>
int(s) == (CHOOSE i \in 1..Len(Numerals) : Numerals[i] = s) - 1

\* Float literals and what float() makes of them, in tenths.
FloatLiterals == <<"0.5", "1.5", "2.5", "3.5", "4.5", "5.5", "6.5", "7.5">>
float(s) == 10 * (CHOOSE i \in 1..Len(FloatLiterals) : FloatLiterals[i] = s) - 5

\* A line is what line.split(":") makes of it; the line starts with "(MM):"
\* exactly when the first piece is "(MM)" and a second piece exists.
startswithMM(split_line) == Len(split_line) >= 2 /\ split_line[1] = "(MM)"

\* startswith on the state label, by family of labels.
startswith(s, prefix) ==
  CASE prefix = "GGCorrTr" -> s \in {"GGCorrTr1", "GGCorrTr4"}
    [] prefix = "WICorr"   -> s \in {"WICorr1tr1", "WICorr1tr4", "WICorr2tr1",
                                     "WICorr2tr4", "WICorr3tr1", "WICorr3tr4"}

\* Position (counted from 1) of the time index and of the value on a line.
TimeIndex(state) ==
  IF startswith(state, "GGCorrTr") THEN 9
  ELSE IF startswith(state, "WICorr") THEN 6
  ELSE 8
ValueIndex(state) ==
  IF startswith(state, "GGCorrTr") THEN 11
  ELSE IF startswith(state, "WICorr") THEN 8
  ELSE 10

\* What the filters at the head of the loop make of a line:
\* "skip" (continue), "corrupt" (warn, continue), "IndexError", or "accept".
Filter(split_line) ==
  IF ~startswithMM(split_line) THEN "skip"
  ELSE IF Len(split_line) < 3 THEN "skip"
  ELSE IF split_line[3] \notin {"Meson_corr", "gluinoglue"} THEN "skip"
  ELSE IF Len(split_line) < 4 THEN "IndexError"
  ELSE IF split_line[4] \in {"total_inviter", "source_t", "leveli", "levelj",
                              "itpropagator", "JN1", "source"} THEN "skip"
  ELSE IF \E i \in 2..Len(split_line) : split_line[i] = "(MM)" THEN "corrupt"
  ELSE "accept"

\* The lines of the input files considered.
RawStates == {"pscalar", "GGCorrTr1"}
Trajectories == {1, 2}

ValueLine(trajectory, state, t, pos) ==
  [i \in 1..ValueIndex(state) |->
     CASE i = 1 -> "(MM)"
       [] i = 2 -> Numerals[trajectory + 1]
       [] i = 3 -> "Meson_corr"
       [] i = 4 -> state
       [] i = TimeIndex(state) -> Numerals[t + 1]
       [] i = ValueIndex(state) -> FloatLiterals[pos]
       [] OTHER -> "-"]

OtherLines ==
  { <<"# flexlatsim">>,
    <<"(MM)", "1", "Meson_corr", "source_t", "0">> }

Lines(pos) ==
  OtherLines \cup
  { ValueLine(tr, st, t, pos) : tr \in Trajectories, st \in RawStates,
                                 t \in 0..MaxIndex }

\* No trajectory yet (current_trajectory = None); trajectory numbers are naturals.
NoTrajectory == -1

\* add_row: note the triple, then append the row; the list of values becomes
\* a new array.  The result carries the error, if any, of the call.
add_row(m, stream_name, valence_mass) ==
  LET seen == m.read_cfgs \cup
                {<<stream_name, m.current_trajectory, m.current_state>>}
      e == IF m.current_state \notin DOMAIN channels THEN "KeyError"
           ELSE AppendError(m.frozen, m.correlators, m.heap,
                            Len(m.correlator_values))
      rec == [stream_name |-> stream_name,
              cfg_index |-> m.current_trajectory,
              source_type |-> "POINT",
              connection_type |-> "TRIPLET",
              channel |-> channels[m.current_state],
              valence_mass |-> valence_mass,
              correlator |-> Len(m.heap) + 1]
  IN IF e # "none"
       THEN [m EXCEPT !.read_cfgs = seen, !.err = e]
       ELSE [m EXCEPT !.read_cfgs = seen,
                      !.heap = Append(@, m.correlator_values),
                      !.correlators = Append(@, rec)]

\* The flush of the accumulated values, if there are any.
Flush(m, stream_name, valence_mass) ==
  IF m.correlator_values # <<>> THEN add_row(m, stream_name, valence_mass) ELSE m

\* The accumulator is not reset after the flush on a change of trajectory.
OnTrajectoryNoReset(m, new_trajectory, stream_name, valence_mass) ==
  IF new_trajectory = m.current_trajectory THEN m
  ELSE LET f == Flush(m, stream_name, valence_mass)
       IN IF f.err # "none" THEN f
          ELSE [f EXCEPT !.current_trajectory = new_trajectory]

\* if new_trajectory != current_trajectory: flush, then reset.
OnTrajectory(m, new_trajectory, stream_name, valence_mass) ==
  IF new_trajectory = m.current_trajectory THEN m
  ELSE LET f == Flush(m, stream_name, valence_mass)
       IN IF f.err # "none" THEN f
          ELSE [f EXCEPT !.current_trajectory = new_trajectory,
                         !.t_index = 0,
                         !.correlator_values = <<>>]

\* if new_state != current_state: flush, then reset.
OnState(m, new_state, stream_name, valence_mass) ==
  IF m.err # "none" \/ new_state = m.current_state THEN m
  ELSE LET f == Flush(m, stream_name, valence_mass)
       IN IF f.err # "none" THEN f
          ELSE [f EXCEPT !.current_state = new_state,
                         !.t_index = 0,
                         !.correlator_values = <<>>]

\* The index check is left out.
OnValueNoIndexCheck(m, split_line, stream_name) ==
  IF m.err # "none" THEN m
  ELSE IF <<stream_name, int(split_line[2]), split_line[4]>> \in m.read_cfgs
    THEN [m EXCEPT !.outcome = "duplicate"]
  ELSE [m EXCEPT !.correlator_values =
                     Append(@, float(split_line[ValueIndex(split_line[4])])),
                 !.t_index = @ + 1,
                 !.outcome = "value"]

\* Lines of a triple already seen are merged, not skipped.
OnValueNoDuplicateCheck(m, split_line, stream_name) ==
  IF m.err # "none" THEN m
  ELSE IF int(split_line[TimeIndex(split_line[4])]) # m.t_index
    THEN [m EXCEPT !.err = "ValueError"]
  ELSE [m EXCEPT !.correlator_values =
                     Append(@, float(split_line[ValueIndex(split_line[4])])),
                 !.t_index = @ + 1,
                 !.outcome = "value"]

\* The rest of the loop body: duplicate test, index test, accumulation.
OnValue(m, split_line, stream_name) ==
  IF m.err # "none" THEN m
  ELSE IF <<stream_name, int(split_line[2]), split_line[4]>> \in m.read_cfgs
    THEN [m EXCEPT !.outcome = "duplicate"]
  ELSE IF int(split_line[TimeIndex(split_line[4])]) # m.t_index
    THEN [m EXCEPT !.err = "ValueError"]
  ELSE [m EXCEPT !.correlator_values =
                     Append(@, float(split_line[ValueIndex(split_line[4])])),
                 !.t_index = @ + 1,
                 !.outcome = "value"]

\* The locals of the loop together with the collection they act on.
Machine ==
  [correlators |-> correlators, heap |-> heap, frozen |-> frozen,
   read_cfgs |-> parser.read_cfgs,
   current_trajectory |-> parser.current_trajectory,
   current_state |-> parser.current_state,
   correlator_values |-> parser.correlator_values,
   t_index |-> parser.t_index,
   err |-> "none", outcome |-> "none"]

\* The state after the parser has moved to machine state m.
Landed(m, split_line) ==
  /\ parser' = [parser EXCEPT
                  !.pc = IF m.err = "none" THEN @ ELSE "failed",
                  !.error = m.err,
                  !.input = Append(@, split_line),
                  !.trace = Append(@, IF m.err = "none" THEN m.outcome ELSE m.err),
                  !.read_cfgs = m.read_cfgs,
                  !.current_trajectory = m.current_trajectory,
                  !.current_state = m.current_state,
                  !.correlator_values = m.correlator_values,
                  !.t_index = m.t_index]
  /\ correlators' = m.correlators
  /\ heap' = m.heap

\* metadata.update(kwargs)
update(md, kwargs) ==
  [k \in DOMAIN md \cup DOMAIN kwargs |->
     IF k \in DOMAIN kwargs THEN kwargs[k] ELSE md[k]]

\* The call, up to the loop: a new collection or the open one passed in, the
\* triples of its rows seen, nothing pending.
read_correlators_flexlatsim(stream_name, valence_mass, kwargs) ==
  /\ parser.name = "none"
  /\ ~frozen
  /\ parser' = [name |-> "flexlatsim", pc |-> "reading", error |-> "none",
                stream_name |-> stream_name, valence_mass |-> valence_mass,
                input |-> <<>>, trace |-> <<>>,
                read_cfgs |-> {<<correlators[i].stream_name,
                                 correlators[i].cfg_index,
                                 correlators[i].channel>> :
                               i \in 1..Len(correlators)},
                current_trajectory |-> NoTrajectory,
                current_state |-> "None",
                correlator_values |-> <<>>,
                t_index |-> 0]
  /\ metadata' = update(metadata, kwargs)
  /\ UNCHANGED <<correlators, frozen, heap, caller, ret>>

\* One pass of the loop over the lines of the file.
flexlatsim_line(split_line) ==
  /\ parser.name = "flexlatsim" /\ parser.pc = "reading"
  /\ LET verdict == Filter(split_line) IN
     IF verdict = "IndexError"
       THEN Landed([Machine EXCEPT !.err = "IndexError"], split_line)
     ELSE IF verdict # "accept"
       THEN Landed([Machine EXCEPT !.outcome = verdict], split_line)
     ELSE LET m1 == OnTrajectory(Machine, int(split_line[2]),
                                 parser.stream_name, parser.valence_mass)
              m2 == OnState(m1, split_line[4],
                            parser.stream_name, parser.valence_mass)
          IN Landed(OnValue(m2, split_line, parser.stream_name), split_line)
  /\ UNCHANGED <<frozen, metadata, caller, ret>>

\* End of the file: flush what is pending, freeze, check consistency.
flexlatsim_end ==
  /\ parser.name = "flexlatsim" /\ parser.pc = "reading"
  /\ LET m == Flush(Machine, parser.stream_name, parser.valence_mass) IN
     IF m.err # "none" \/ m.correlators = <<>>
       THEN /\ parser' = [parser EXCEPT
                            !.pc = "failed",
                            !.error = IF m.err # "none" THEN m.err ELSE "KeyError",
                            !.read_cfgs = m.read_cfgs]
            /\ correlators' = m.correlators
            /\ heap' = m.heap
            /\ UNCHANGED <<frozen, ret>>
       ELSE LET sorted == sort_values(DataFrame(m.correlators))
                out == IsConsistentOutcome(TRUE, metadata, sorted, m.heap)
            IN /\ correlators' = sorted
               /\ heap' = m.heap
               /\ frozen' = TRUE
               /\ ret' = out
               /\ parser' = [parser EXCEPT
                               !.pc = IF out.err = "none" THEN "done" ELSE "failed",
                               !.error = out.err,
                               !.read_cfgs = m.read_cfgs]
  /\ UNCHANGED <<metadata, caller>>

NextFlexlatsim ==
  \/ /\ parser.name = "none"
     /\ \E kwargs \in {<<>>, [k \in {"NT"} |-> 1]} :
          read_correlators_flexlatsim("runA", "0.1", kwargs)
  \/ /\ parser.name = "flexlatsim"
     /\ Len(parser.input) < MaxLines
     /\ \E split_line \in Lines(Len(parser.input) + 1) : flexlatsim_line(split_line)
  \/ flexlatsim_end

SpecFlexlatsim == Init /\ [][NextFlexlatsim]_vars

\* --------------------------------------------- Flexlatsim: what is claimed
\* The line read by the step just taken, and what it says.
LineRead ==
  /\ parser.name = "flexlatsim" /\ parser.pc = "reading"
  /\ Len(parser'.input) = Len(parser.input) + 1
NewLine == parser'.input[Len(parser'.input)]
LineTrajectory(split_line) == int(split_line[2])
LineState(split_line) == split_line[4]
LineIndex(split_line) == int(split_line[TimeIndex(split_line[4])])
LineValue(split_line) == float(split_line[ValueIndex(split_line[4])])

\* The number of values accumulated so far for the block a line belongs to.
Accumulated(split_line) ==
  IF /\ LineTrajectory(split_line) = parser.current_trajectory
     /\ LineState(split_line) = parser.current_state
    THEN Len(parser.correlator_values)
    ELSE 0

\* A row for the triple of the line is already in the collection.
Flushed(split_line) ==
  \E i \in 1..Len(correlators) :
    /\ correlators[i].stream_name = parser.stream_name
    /\ correlators[i].cfg_index = LineTrajectory(split_line)
    /\ correlators[i].channel = channels[LineState(split_line)]

\* C13 as stated: every accepted value line whose time index is not the
\* number of values accumulated for its (trajectory, raw-channel) block makes
\* the parse fail.
C13_OutOfSequenceFails ==
  [][(/\ LineRead
      /\ Filter(NewLine) = "accept"
      /\ LineIndex(NewLine) # Accumulated(NewLine))
     => parser'.pc = "failed"]_vars

\* C13, amended: an accepted value line of a triple that has no row yet,
\* whose time index is not the number of values accumulated for its block,
\* makes the parse fail: no collection is returned.
C13_OutOfSequence ==
  [][(/\ LineRead
      /\ Filter(NewLine) = "accept"
      /\ ~Flushed(NewLine)
      /\ LineIndex(NewLine) # Accumulated(NewLine))
     => parser'.pc = "failed"]_vars

\* Index 2 arrives right after index 0 of the same block: the parse has failed.
C13_Witness ==
  /\ parser.name = "flexlatsim"
  /\ parser.pc = "failed" /\ parser.error = "ValueError"
  /\ Len(parser.correlator_values) = 1
  /\ Len(parser.input) >= 2
  /\ LET n == Len(parser.input) IN
       /\ parser.trace[n - 1] = "value"
       /\ LineIndex(parser.input[n - 1]) = 0
       /\ LineIndex(parser.input[n]) = 2
       /\ LineTrajectory(parser.input[n]) = LineTrajectory(parser.input[n - 1])
       /\ LineState(parser.input[n]) = LineState(parser.input[n - 1])

\* The values held by the rows and by the accumulator.
RowValues ==
  UNION {{heap[correlators[i].correlator][j] :
            j \in 1..Len(heap[correlators[i].correlator])} :
         i \in 1..Len(correlators)}
PendingValues ==
  {parser.correlator_values[j] : j \in 1..Len(parser.correlator_values)}

\* No two rows share (stream_name, cfg_index, channel).
NoTwoRows ==
  \A i, j \in 1..Len(correlators) :
    (/\ correlators[i].stream_name = correlators[j].stream_name
     /\ correlators[i].cfg_index = correlators[j].cfg_index
     /\ correlators[i].channel = correlators[j].channel) => i = j

\* The value of a line skipped as a duplicate is in no row and not pending.
SkippedContributeNothing ==
  \A k \in 1..Len(parser.input) :
    parser.trace[k] = "duplicate" =>
      LineValue(parser.input[k]) \notin RowValues \cup PendingValues

Taken ==
  SelectSeq([k \in 1..Len(parser.input) |-> k],
            LAMBDA k : parser.trace[k] = "value")
TakenKey(p) ==
  <<LineTrajectory(parser.input[Taken[p]]), LineState(parser.input[Taken[p]])>>

\* The maximal runs of consecutive taken lines with one (trajectory, state).
Runs ==
  {run \in (1..Len(Taken)) \X (1..Len(Taken)) :
     /\ run[1] <= run[2]
     /\ \A p \in run[1]..run[2] : TakenKey(p) = TakenKey(run[1])
     /\ run[1] = 1 \/ TakenKey(run[1] - 1) # TakenKey(run[1])
     /\ run[2] = Len(Taken) \/ TakenKey(run[2] + 1) # TakenKey(run[2])}

\* The row a run stands for, and the row a record holds.
RunRow(run) ==
  [stream_name |-> parser.stream_name,
   cfg_index |-> TakenKey(run[1])[1],
   channel |-> channels[TakenKey(run[1])[2]],
   correlator |-> [i \in 1..(run[2] - run[1] + 1) |->
                     LineValue(parser.input[Taken[run[1] + i - 1]])]]
RecordRow(rec) ==
  [stream_name |-> rec.stream_name,
   cfg_index |-> rec.cfg_index,
   channel |-> rec.channel,
   correlator |-> heap[rec.correlator]]

\* The lines of a run carry the time indices 0..n-1 in order.
RunInSequence(run) ==
  \A p \in run[1]..run[2] : LineIndex(parser.input[Taken[p]]) = p - run[1]

\* C20: when a file has been read without error, the rows of the frozen
\* collection are, one for one, the maximal runs of consecutive accepted,
\* non-duplicate lines with one (trajectory, raw-channel), each holding the
\* values of its run in line order at time indices 0..n-1, the run pending at
\* the end of the input included.
C20_OneRowPerRun ==
  (parser.name = "flexlatsim" /\ parser.pc = "done") =>
    /\ frozen
    /\ Len(correlators) = Cardinality(Runs)
    /\ {RecordRow(correlators[i]) : i \in 1..Len(correlators)}
         = {RunRow(run) : run \in Runs}
    /\ \A run \in Runs : RunInSequence(run)

\* A file was read to its end in which trajectory and state change together
\* between two taken lines, and the last run was still pending at the end.
C20_Witness ==
  /\ parser.name = "flexlatsim" /\ parser.pc = "done"
  /\ Len(parser.input) >= 2
  /\ parser.trace[Len(parser.input)] = "value"
  /\ \E p \in 1..(Len(Taken) - 1) :
       /\ TakenKey(p)[1] # TakenKey(p + 1)[1]
       /\ TakenKey(p)[2] # TakenKey(p + 1)[2]
  /\ Len(correlators) = Cardinality(Runs)
  /\ Len(correlators) >= 2

\* ======================================================================
\* read_correlators_hadrons: one mres document, element by element
\* ======================================================================
MaxElems == 3      \* children of the document's first element
MaxPairs == 2      \* value pairs of one channel element

\* The canonical form of the float a text denotes.
FloatTexts == <<"0.1", "0.10", "0.2", "0.20", "-0.5", "-0.50", "2.0", "2.00", "2.5">>
FloatForms == <<"0.1", "0.1", "0.2", "0.2", "-0.5", "-0.5", "2.0", "2.0", "2.5">>
floatOf(text) == FloatForms[CHOOSE i \in 1..Len(FloatTexts) : FloatTexts[i] = text]

\* The texts of value pairs and the complex number (in tenths) each denotes.
PairLiterals ==
  <<"(1.0,0.5)", "(2.0,0.5)", "(3.0,0.5)", "(4.0,0.5)", "(5.0,0.5)", "(6.0,0.5)",
    "(7.0,0.5)", "(8.0,0.5)", "(9.0,0.5)", "(10.0,0.5)", "(11.0,0.5)", "(12.0,0.5)">>
pair_to_complex(value) ==
  <<10 * (CHOOSE i \in 1..Len(PairLiterals) : PairLiterals[i] = value), 5>>

\* File names and the group re.search("([0-9]+).xml$") finds in each.
MresFiles == {"mres_7.xml", "mres_s12.xml"}
CfgIndexOf(filename) == IF filename = "mres_7.xml" THEN 7 ELSE 12

\* The documents considered: up to MaxElems children, each a mass element or
\* a channel element with up to MaxPairs value pairs.
ElemShapes ==
  {[tag |-> "mass", text |-> m, n |-> 0] : m \in {"0.1", "0.20"}} \cup
  {[tag |-> t, text |-> "", n |-> k] : t \in {"g5", "id"}, k \in 1..MaxPairs}
Element(shape, e) ==
  [tag |-> shape.tag, text |-> shape.text,
   children |-> [j \in 1..shape.n |-> PairLiterals[(e - 1) * MaxPairs + j]]]
Documents ==
  UNION {{[e \in 1..n |-> Element(f[e], e)] : f \in [1..n -> ElemShapes]} :
         n \in 0..MaxElems}

\* The call up to the first element of the only file of the directory.
read_correlators_hadrons(filename, document, kwargs) ==
  /\ parser.name = "none"
  /\ correlators = <<>> /\ ~frozen
  /\ parser' = [name |-> "hadrons", pc |-> "reading", error |-> "none",
                filename |-> filename, document |-> document, next |-> 1,
                cfg_index |-> CfgIndexOf(filename),
                valence_mass |-> "unbound"]
  /\ metadata' = kwargs
  /\ UNCHANGED <<correlators, frozen, heap, caller, ret>>

\* One pass of the loop of read_single_mres_file.
mres_element ==
  /\ parser.name = "hadrons" /\ parser.pc = "reading"
  /\ parser.next <= Len(parser.document)
  /\ LET elem == parser.document[parser.next]
         values == [j \in 1..Len(elem.children) |-> pair_to_complex(elem.children[j])]
         mass == parser.valence_mass
         e == IF mass = "unbound" THEN "UnboundLocalError"
              ELSE AppendError(frozen, correlators, heap, Len(values))
         rec == [stream_name |-> "run1",
                 cfg_index |-> parser.cfg_index,
                 source_type |-> "DEFAULT_SEMWALL",
                 connection_type |-> "TRIPLET",
                 channel |-> elem.tag,
                 valence_mass |-> mass,
                 correlator |-> Len(heap) + 1]
     IN IF elem.tag = "mass"
          THEN /\ parser' = [parser EXCEPT !.valence_mass = floatOf(elem.text),
                                           !.next = @ + 1]
               /\ UNCHANGED <<correlators, heap>>
        ELSE IF e # "none"
          THEN /\ parser' = [parser EXCEPT !.pc = "failed", !.error = e]
               /\ UNCHANGED <<correlators, heap>>
        ELSE /\ parser' = [parser EXCEPT !.next = @ + 1]
             /\ correlators' = Append(correlators, rec)
             /\ heap' = Append(heap, values)
  /\ UNCHANGED <<frozen, metadata, caller, ret>>

\* End of the document and of the directory: freeze, check consistency.
hadrons_end ==
  /\ parser.name = "hadrons" /\ parser.pc = "reading"
  /\ parser.next > Len(parser.document)
  /\ IF correlators = <<>>
       THEN /\ parser' = [parser EXCEPT !.pc = "failed", !.error = "KeyError"]
            /\ UNCHANGED <<correlators, frozen, ret>>
       ELSE LET sorted == sort_values(DataFrame(correlators))
                out == IsConsistentOutcome(TRUE, metadata, sorted, heap)
            IN /\ correlators' = sorted
               /\ frozen' = TRUE
               /\ ret' = out
               /\ parser' = [parser EXCEPT
                               !.pc = IF out.err = "none" THEN "done" ELSE "failed",
                               !.error = out.err]
  /\ UNCHANGED <<metadata, heap, caller>>

NextHadrons ==
  \/ /\ parser.name = "none"
     /\ \E filename \in MresFiles, document \in Documents,
           kwargs \in {<<>>, [k \in {"NT"} |-> MaxPairs]} :
          read_correlators_hadrons(filename, document, kwargs)
  \/ mres_element
  \/ hadrons_end

SpecHadrons == Init /\ [][NextHadrons]_vars

\* ------------------------------------------------ Hadrons: what is claimed
\* One mass element and two channel elements with 2 value pairs each.
OneMassTwoChannels(document) ==
  /\ Len(document) = 3
  /\ Cardinality({e \in 1..3 : document[e].tag = "mass"}) = 1
  /\ \A e \in 1..3 : document[e].tag # "mass" => Len(document[e].children) = 2
MassText(document) ==
  document[CHOOSE e \in 1..Len(document) : document[e].tag = "mass"].text

\* C14: an mres document with one mass element and two channel elements of
\* 2 value pairs each, the mass element placed anywhere, is read to its end
\* and yields exactly two records, both with the mass element's value as
\* valence_mass and the file name's index as cfg_index, each of length 2.
C14_MresAnyPlacement ==
  (/\ parser.name = "hadrons"
   /\ parser.pc \in {"done", "failed"}
   /\ OneMassTwoChannels(parser.document))
  => /\ parser.pc = "done"
     /\ Len(correlators) = 2
     /\ \A i \in 1..Len(correlators) :
          /\ correlators[i].valence_mass = floatOf(MassText(parser.document))
          /\ correlators[i].cfg_index = CfgIndexOf(parser.filename)
          /\ Len(heap[correlators[i].correlator]) = 2

\* ======================================================================
\* read_correlators_hirep: the line-by-line state machine
\* ======================================================================
MaxLogLines == 3   \* lines of one log file

\* The representation names of configuration file names.
_reps ==
  [r \in {"FUN", "SYM", "ASY", "ADJ"} |->
     CASE r = "FUN" -> "fundamental"
       [] r = "SYM" -> "symmetric"
       [] r = "ASY" -> "antisymmetric"
       [] r = "ADJ" -> "adjoint"]

\* The file names of the configuration-read lines considered, and for each
\* the groups the pattern of parse_cfg_filename finds in it ("None" where an
\* optional group does not take part in the match).
CfgFilenames ==
  {"cnfg/runA_4x2x2x2nc2rFUNnf2b2.0m-0.5n3",
   "cnfg/runA_4x2x2x2nc2rSYMnf4b2.5m0.2n3",
   "cnfg/runB_4x2x2x2nc2nf2b2.0m-0.5n4",
   "cnfg/runA_4x2x2x2nc2rFUNb2.0m-0.5n3",
   "cnfg/runA_4x2x2x2nc2b2.0m-0.5n4"}
FilenameGroups(filename) ==
  CASE filename = "cnfg/runA_4x2x2x2nc2rFUNnf2b2.0m-0.5n3"
         -> <<"runA", "2", "FUN", "2", "2.0", "-0.5", "3">>
    [] filename = "cnfg/runA_4x2x2x2nc2rSYMnf4b2.5m0.2n3"
         -> <<"runA", "2", "SYM", "4", "2.5", "0.2", "3">>
    [] filename = "cnfg/runB_4x2x2x2nc2nf2b2.0m-0.5n4"
         -> <<"runB", "2", "None", "2", "2.0", "-0.5", "4">>
    [] filename = "cnfg/runA_4x2x2x2nc2rFUNb2.0m-0.5n3"
         -> <<"runA", "2", "FUN", "None", "2.0", "-0.5", "3">>
    [] filename = "cnfg/runA_4x2x2x2nc2b2.0m-0.5n4"
         -> <<"runA", "2", "None", "None", "2.0", "-0.5", "4">>

\* parse_cfg_filename: the 7-tuple, or the error the conversions raise.
parse_cfg_filename(filename) ==
  LET g == FilenameGroups(filename) IN
  IF g[3] # "None" /\ g[3] \notin DOMAIN _reps THEN [err |-> "KeyError"]
  ELSE IF g[4] = "None" THEN [err |-> "TypeError"]      \* int(None)
  ELSE [err |-> "none", run_name |-> g[1], Nc |-> int(g[2]),
        rep |-> IF g[3] # "None" THEN _reps[g[3]] ELSE "None",
        Nf |-> int(g[4]),
        beta |-> floatOf(g[5]), mass |-> floatOf(g[6]), cfg_index |-> int(g[7])]

\* line_contents[1][1:-1]: the file name between the brackets.
StripEnds(token) ==
  CASE token = "[cnfg/runA_4x2x2x2nc2rFUNnf2b2.0m-0.5n3]"
         -> "cnfg/runA_4x2x2x2nc2rFUNnf2b2.0m-0.5n3"
    [] token = "[cnfg/runA_4x2x2x2nc2rSYMnf4b2.5m0.2n3]"
         -> "cnfg/runA_4x2x2x2nc2rSYMnf4b2.5m0.2n3"
    [] token = "[cnfg/runB_4x2x2x2nc2nf2b2.0m-0.5n4]"
         -> "cnfg/runB_4x2x2x2nc2nf2b2.0m-0.5n4"
    [] token = "[cnfg/runA_4x2x2x2nc2rFUNb2.0m-0.5n3]"
         -> "cnfg/runA_4x2x2x2nc2rFUNb2.0m-0.5n3"
    [] token = "[cnfg/runA_4x2x2x2nc2b2.0m-0.5n4]"
         -> "cnfg/runA_4x2x2x2nc2b2.0m-0.5n4"
CfgTokens ==
  {"[cnfg/runA_4x2x2x2nc2rFUNnf2b2.0m-0.5n3]",
   "[cnfg/runA_4x2x2x2nc2rSYMnf4b2.5m0.2n3]",
   "[cnfg/runB_4x2x2x2nc2nf2b2.0m-0.5n4]",
   "[cnfg/runA_4x2x2x2nc2rFUNb2.0m-0.5n3]",
   "[cnfg/runA_4x2x2x2nc2b2.0m-0.5n4]"}

\* The lines of the log files considered, each as line.split() gives it.
GeometryLine == <<"[GEOMETRY][0]Global", "size", "is", "4x2x2x2">>
MassLine == <<"[MAIN][0]Mass[0]", "=", "-0.50">>
FermionLine == <<"[MAIN][0]Fermion", "representation:", "REPR_FUNDAMENTAL">>
GaugeLine == <<"[SYSTEM][0]Gauge", "group:", "SU(2)">>
MacrosLine ==
  <<"[SYSTEM][0]MACROS=-DNG=2", "-DREPR_ADJOINT", "-DREPR_NAME=\"REPR_ADJOINT\"">>
CfgLine(token) == <<"[IO][0]Configuration", token, "read">>
DataLine(source, n) ==
  <<"[MAIN][0]conf", "#0", "mass=-0.5">> \o source \o <<"TRIPLET", "g5=">>
    \o [j \in 1..n |-> FloatLiterals[j]]
DataLines ==
  {DataLine(<<>>, 4), DataLine(<<"POINT">>, 4), DataLine(<<>>, 2)}
IgnoredLines ==
  { <<>>,
    <<"[MAIN][0]done">>,
    <<"[IO][0]Configuration", "[cnfg/runA_4x2x2x2nc2rFUNnf2b2.0m-0.5n3]", "saved">> }
LogLines ==
  {GeometryLine, MassLine, FermionLine, GaugeLine, MacrosLine}
    \cup {CfgLine(token) : token \in CfgTokens}
    \cup DataLines \cup IgnoredLines

\* The first character of a line, and startswith on what the code applies
\* it to: a first character, a first token, a macro.
FirstCharacter(line_contents) == "["   \* every line considered begins so
startswithMacros(s) == s \in {"[SYSTEM][0]MACROS=-DNG=2"}
startswithMass(s) == s \in {"[MAIN][0]Mass[0]"}
startswithReprName(s) == s \in {"-DREPR_NAME=\"REPR_ADJOINT\"", "-DREPR_NAME=\"REPR_FUNDAMENTAL\""}

\* re.match("([0-9]+)x([0-9]+)x([0-9]+)x([0-9]+)", token).groups()
GeometryGroups(token) ==
  IF token = "4x2x2x2" THEN <<"4", "2", "2", "2">> ELSE <<>>

\* line_contents[2][5:].lower() and the macro stripped to its name.
ReprName(token) ==
  CASE token = "REPR_FUNDAMENTAL" -> "fundamental"
    [] token = "-DREPR_NAME=\"REPR_FUNDAMENTAL\"" -> "fundamental"
    [] token = "-DREPR_NAME=\"REPR_ADJOINT\"" -> "adjoint"

\* line_contents[2].strip(")").split("(")
GroupParts(token) == IF token = "SU(2)" THEN <<"SU", "2">> ELSE <<token>>

\* split_line[2][5:] and split_line[4][:-1]
AfterMassEquals(token) == IF token = "mass=-0.5" THEN "-0.5" ELSE token
DropLast(token) == IF token = "g5=" THEN "g5" ELSE token

\* metadata[name] = value
Put(md, name, value) ==
  [k \in DOMAIN md \cup {name} |-> IF k = name THEN value ELSE md[k]]

\* get_representation: the name of the first -DREPR_NAME macro, if any.
get_representation(macros) ==
  IF \E i \in 2..Len(macros) : startswithReprName(macros[i])
    THEN ReprName(macros[CHOOSE i \in 2..Len(macros) :
                           /\ startswithReprName(macros[i])
                           /\ \A j \in 2..(i - 1) : ~startswithReprName(macros[j])])
    ELSE "None"

\* The five tests of add_metadata, in order; m carries metadata and err.
MetaGeometry(m, lc) ==
  IF lc[1] \notin {"[GEOMETRY][0]Global", "[GEOMETRY_INIT][0]Global",
                   "[MAIN][0]global"} THEN m
  ELSE IF Len(lc) < 4 THEN [m EXCEPT !.err = "IndexError"]
  ELSE IF GeometryGroups(lc[4]) = <<>> THEN [m EXCEPT !.err = "AttributeError"]
  ELSE LET g == GeometryGroups(lc[4]) IN
       [m EXCEPT !.metadata =
          Put(Put(Put(Put(@, "NT", int(g[1])), "NX", int(g[2])),
                  "NY", int(g[3])), "NZ", int(g[4]))]

MetaMass(m, lc) ==
  IF m.err # "none" \/ ~startswithMass(lc[1]) THEN m
  ELSE IF Len(lc) < 3 THEN [m EXCEPT !.err = "IndexError"]
  ELSE LET known == IF "valence_masses" \in DOMAIN m.metadata
                      THEN m.metadata["valence_masses"] ELSE <<>>
           valence_mass == floatOf(lc[3])
       IN [m EXCEPT !.metadata =
             Put(@, "valence_masses",
                 IF \E i \in 1..Len(known) : known[i] = valence_mass
                   THEN known ELSE Append(known, valence_mass))]

MetaFermion(m, lc) ==
  IF m.err # "none" THEN m
  ELSE IF ~(Len(lc) >= 2 /\ lc[1] = "[MAIN][0]Fermion" /\ lc[2] = "representation:")
    THEN m
  ELSE IF Len(lc) < 3 THEN [m EXCEPT !.err = "IndexError"]
  ELSE [m EXCEPT !.metadata = Put(@, "valence_representation", ReprName(lc[3]))]

\* line_contents[1] is read first, on every line that reaches add_metadata.
MetaGauge(m, lc) ==
  IF m.err # "none" THEN m
  ELSE IF Len(lc) < 2 THEN [m EXCEPT !.err = "IndexError"]
  ELSE IF ~(lc[2] = "group:" /\ lc[1] \in {"[SYSTEM][0]Gauge", "[MAIN][0]Gauge"})
    THEN m
  ELSE IF Len(lc) < 3 THEN [m EXCEPT !.err = "IndexError"]
  ELSE LET parts == GroupParts(lc[3]) IN
       IF Len(parts) # 2 THEN [m EXCEPT !.err = "ValueError"]
       ELSE [m EXCEPT !.metadata =
               Put(Put(@, "group_family", parts[1]), "Nc", int(parts[2]))]

MetaMacros(m, lc) ==
  IF m.err # "none" \/ ~startswithMacros(lc[1]) THEN m
  ELSE [m EXCEPT !.metadata =
          Put(@, "valence_representation", get_representation(lc))]

add_metadata(m, lc) ==
  MetaMacros(MetaGauge(MetaFermion(MetaMass(MetaGeometry(m, lc), lc), lc), lc), lc)

\* "if value": None, 0 and 0.0 count as no value.
Truthy(name, value) ==
  IF name = "Nf" THEN value # 0 ELSE value \notin {"None", "0.0"}

\* add_single_consistent_metadatum: warn on a conflict, then store the value.
add_single_consistent_metadatum(m, name, value) ==
  LET w == IF /\ Truthy(name, value)
              /\ name \in DOMAIN m.metadata
              /\ m.metadata[name] # value
             THEN [m EXCEPT !.warnings = Append(@, name)]
             ELSE m
  IN [w EXCEPT !.metadata = Put(@, name, value)]

add_cfg_metadata(m, Nc, rep, Nf, beta, mass) ==
  LET w == IF "Nc" \in DOMAIN m.metadata /\ m.metadata["Nc"] = Nc
             THEN m ELSE [m EXCEPT !.warnings = Append(@, "Nc")]
  IN add_single_consistent_metadatum(
       add_single_consistent_metadatum(
         add_single_consistent_metadatum(
           add_single_consistent_metadatum(w, "dynamical_representation", rep),
           "Nf", Nf),
         "beta", beta),
       "dynamical_mass", mass)

\* No configuration is ever taken for a duplicate.
IsDuplicateNever(read_cfgs, run_name, cfg_index) == FALSE

\* (run_name, cfg_index) in read_cfgs
IsDuplicate(read_cfgs, run_name, cfg_index) == <<run_name, cfg_index>> \in read_cfgs

\* Once a configuration is tracked, later configuration-read lines do not
\* replace it.
OnConfigurationKeepFirst(m, lc) ==
  LET p == parse_cfg_filename(StripEnds(lc[2])) IN
  IF p.err # "none" THEN [m EXCEPT !.err = p.err]
  ELSE LET rep == IF p.rep = "None" THEN m.run_repr ELSE p.rep
           c == add_cfg_metadata(m, p.Nc, rep, p.Nf, p.beta, p.mass)
       IN [c EXCEPT !.bound = TRUE,
                    !.run_name = IF m.bound THEN @ ELSE p.run_name,
                    !.cfg_index = IF m.bound THEN @ ELSE p.cfg_index,
                    !.warnings = IF IsDuplicate(m.read_cfgs, p.run_name, p.cfg_index)
                                   THEN Append(@, "duplicate") ELSE @,
                    !.outcome = "configuration"]

\* The configuration-read branch of the loop.
OnConfiguration(m, lc) ==
  LET p == parse_cfg_filename(StripEnds(lc[2])) IN
  IF p.err # "none" THEN [m EXCEPT !.err = p.err]
  ELSE IF p.rep # "None" /\ m.run_repr # "None"
    THEN \* repr is the builtin: it never equals run_repr
         [m EXCEPT !.err = "RepresentationMismatch"]
  ELSE LET rep == IF p.rep = "None" THEN m.run_repr ELSE p.rep
           c == add_cfg_metadata(m, p.Nc, rep, p.Nf, p.beta, p.mass)
       IN [c EXCEPT !.bound = TRUE,
                    !.run_name = p.run_name,
                    !.cfg_index = p.cfg_index,
                    !.warnings = IF IsDuplicate(m.read_cfgs, p.run_name, p.cfg_index)
                                   THEN Append(@, "duplicate") ELSE @,
                    !.outcome = "configuration"]

\* add_row of the Hirep reader: the row a data line stands for.
hirep_add_row(m, split_line) ==
  IF Len(split_line) < 6 THEN [m EXCEPT !.err = "IndexError"]
  ELSE LET explicit == split_line[6] \notin
                         {FloatLiterals[i] : i \in 1..Len(FloatLiterals)}
           rest == IF explicit
                     THEN SubSeq(split_line, 1, 3)
                            \o SubSeq(split_line, 5, Len(split_line))
                     ELSE split_line
           values == [j \in 1..(Len(rest) - 5) |-> float(rest[5 + j])]
           e == AppendError(m.frozen, m.correlators, m.heap, Len(values))
           rec == [stream_name |-> m.run_name,
                   cfg_index |-> m.cfg_index,
                   source_type |-> IF explicit THEN split_line[4]
                                   ELSE "DEFAULT_SEMWALL",
                   connection_type |-> rest[4],
                   channel |-> DropLast(rest[5]),
                   valence_mass |-> floatOf(AfterMassEquals(split_line[3])),
                   correlator |-> Len(m.heap) + 1]
       IN IF e # "none" THEN [m EXCEPT !.err = e]
          ELSE [m EXCEPT !.heap = Append(@, values),
                         !.correlators = Append(@, rec)]

\* The rest of the loop body: metadata of the line, then the data line.
OnOtherLine(m, lc) ==
  LET a == add_metadata(m, lc) IN
  IF a.err # "none" THEN a
  ELSE IF lc[1] # "[MAIN][0]conf" THEN [a EXCEPT !.outcome = "metadata"]
  ELSE IF ~a.bound THEN [a EXCEPT !.err = "UnboundLocalError"]
  ELSE LET r == hirep_add_row(
                  [a EXCEPT !.read_cfgs = @ \cup {<<a.run_name, a.cfg_index>>}], lc)
       IN IF r.err # "none" THEN r ELSE [r EXCEPT !.outcome = "data"]

\* The locals of the loop together with the collection they act on.
HirepMachine ==
  [correlators |-> correlators, heap |-> heap, frozen |-> frozen,
   metadata |-> metadata,
   read_cfgs |-> parser.read_cfgs, run_repr |-> parser.run_repr,
   bound |-> parser.bound, run_name |-> parser.run_name,
   cfg_index |-> parser.cfg_index, warnings |-> parser.warnings,
   err |-> "none", outcome |-> "none"]

\* The call, up to the loop.
read_correlators_hirep ==
  /\ parser.name = "none"
  /\ correlators = <<>> /\ ~frozen /\ metadata = <<>>
  /\ parser' = [name |-> "hirep", pc |-> "reading", error |-> "none",
                input |-> <<>>, trace |-> <<>>, warnings |-> <<>>,
                read_cfgs |-> {}, run_repr |-> "None",
                bound |-> FALSE, run_name |-> "", cfg_index |-> 0]
  /\ UNCHANGED <<correlators, frozen, metadata, heap, caller, ret>>

\* One pass of the loop over the lines of the log.
hirep_line(line_contents) ==
  /\ parser.name = "hirep" /\ parser.pc = "reading"
  /\ LET m0 == IF line_contents # <<>>
                    /\ startswithMacros(FirstCharacter(line_contents))
                 THEN [HirepMachine EXCEPT !.run_repr = "None"]
                 ELSE HirepMachine
         m == IF line_contents = <<>> THEN [m0 EXCEPT !.outcome = "empty"]
              ELSE IF line_contents[1] = "[IO][0]Configuration"
                   /\ Len(line_contents) < 3
                THEN [m0 EXCEPT !.err = "IndexError"]
              ELSE IF line_contents[1] = "[IO][0]Configuration"
                   /\ line_contents[3] = "read"
                THEN OnConfiguration(m0, line_contents)
              ELSE OnOtherLine(m0, line_contents)
     IN /\ parser' = [parser EXCEPT
                        !.pc = IF m.err = "none" THEN @ ELSE "failed",
                        !.error = m.err,
                        !.input = Append(@, line_contents),
                        !.trace = Append(@, IF m.err = "none" THEN m.outcome
                                            ELSE m.err),
                        !.warnings = m.warnings,
                        !.read_cfgs = m.read_cfgs,
                        !.run_repr = m.run_repr,
                        !.bound = m.bound,
                        !.run_name = m.run_name,
                        !.cfg_index = m.cfg_index]
        /\ correlators' = m.correlators
        /\ heap' = m.heap
        /\ metadata' = m.metadata
  /\ UNCHANGED <<frozen, caller, ret>>

\* End of the log: freeze, check consistency.
hirep_end ==
  /\ parser.name = "hirep" /\ parser.pc = "reading"
  /\ IF correlators = <<>>
       THEN /\ parser' = [parser EXCEPT !.pc = "failed", !.error = "KeyError"]
            /\ UNCHANGED <<correlators, frozen, ret>>
       ELSE LET sorted == sort_values(DataFrame(correlators))
                out == IsConsistentOutcome(TRUE, metadata, sorted, heap)
            IN /\ correlators' = sorted
               /\ frozen' = TRUE
               /\ ret' = out
               /\ parser' = [parser EXCEPT
                               !.pc = IF out.err = "none" THEN "done" ELSE "failed",
                               !.error = out.err,
                               !.warnings =
                                 IF out.err = "none" /\ ~out.val
                                   THEN Append(@, "not self-consistent") ELSE @]
  /\ UNCHANGED <<metadata, heap, caller>>

NextHirep ==
  \/ read_correlators_hirep
  \/ /\ parser.name = "hirep"
     /\ Len(parser.input) < MaxLogLines
     /\ \E line_contents \in LogLines : hirep_line(line_contents)
  \/ hirep_end

SpecHirep == Init /\ [][NextHirep]_vars

\* -------------------------------------------------- Hirep: what is claimed
\* The kinds of line the parser knows, told from the tokens alone.
IsGeometry(lc) ==
  lc # <<>> /\ lc[1] \in {"[GEOMETRY][0]Global", "[GEOMETRY_INIT][0]Global",
                          "[MAIN][0]global"}
IsMassDeclaration(lc) == lc # <<>> /\ startswithMass(lc[1])
IsFermionRepresentation(lc) ==
  Len(lc) >= 2 /\ lc[1] = "[MAIN][0]Fermion" /\ lc[2] = "representation:"
IsGaugeGroup(lc) ==
  Len(lc) >= 2 /\ lc[2] = "group:" /\ lc[1] \in {"[SYSTEM][0]Gauge", "[MAIN][0]Gauge"}
IsMacros(lc) == lc # <<>> /\ startswithMacros(lc[1])
IsConfigRead(lc) ==
  Len(lc) >= 3 /\ lc[1] = "[IO][0]Configuration" /\ lc[3] = "read"
IsData(lc) == lc # <<>> /\ lc[1] = "[MAIN][0]conf"
IsOther(lc) ==
  /\ lc # <<>>
  /\ ~IsGeometry(lc) /\ ~IsMassDeclaration(lc) /\ ~IsFermionRepresentation(lc)
  /\ ~IsGaugeGroup(lc) /\ ~IsMacros(lc) /\ ~IsConfigRead(lc) /\ ~IsData(lc)

\* What the file name of a configuration-read line says.
GroupsOf(lc) == FilenameGroups(StripEnds(lc[2]))
NamedRun(lc) == GroupsOf(lc)[1]
NamedCfg(lc) == int(GroupsOf(lc)[7])

\* The step just taken read a line of the log.
HirepLineRead ==
  /\ parser.name = "hirep" /\ parser.pc = "reading"
  /\ Len(parser'.input) = Len(parser.input) + 1

\* A line, not the end of the log, made the parse fail.
LineFailed ==
  /\ parser.pc = "failed"
  /\ parser.trace # <<>>
  /\ parser.trace[Len(parser.trace)] = parser.error

\* The log read so far is the beginning of a minimal log: a geometry line
\* declaring 4x2x2x2, a configuration-read line, a data line with 4 values.
IsMinimalLog(input) ==
  /\ Len(input) \in 1..3
  /\ IsGeometry(input[1]) /\ Len(input[1]) >= 4 /\ input[1][4] = "4x2x2x2"
  /\ Len(input) >= 2 => IsConfigRead(input[2])
  /\ Len(input) >= 3 => input[3] \in {DataLine(<<>>, 4), DataLine(<<"POINT">>, 4)}

\* C11: a log of one geometry line declaring 4x2x2x2, one configuration-read
\* line and one data line with a 4-element correlator is read without error
\* and yields a frozen collection with NT 4, one record, is_consistent true.
C11_MinimalLog ==
  (parser.name = "hirep" /\ IsMinimalLog(parser.input)) =>
    /\ ~LineFailed
    /\ (Len(parser.input) = 3 /\ parser.pc \in {"done", "failed"}) =>
         /\ parser.pc = "done"
         /\ frozen
         /\ Len(correlators) = 1
         /\ NTValue(correlators, heap) = 4
         /\ ret = [op |-> "is_consistent", err |-> "none", val |-> TRUE]

\* The number of duplicate warnings logged so far.
DuplicateWarnings(warnings) ==
  Cardinality({i \in 1..Len(warnings) : warnings[i] = "duplicate"})

\* An earlier configuration-read line named the same (run_name, cfg_index).
NamedBefore(lc) ==
  \E k \in 1..Len(parser.input) :
    /\ IsConfigRead(parser.input[k])
    /\ NamedRun(parser.input[k]) = NamedRun(lc)
    /\ NamedCfg(parser.input[k]) = NamedCfg(lc)

\* A data line has been read under the (run_name, cfg_index) of the line.
DataReadUnder(lc) ==
  \E i \in 1..Len(correlators) :
    /\ correlators[i].stream_name = NamedRun(lc)
    /\ correlators[i].cfg_index = NamedCfg(lc)

MacrosRepresentation(input) ==
  IF \E k \in 1..Len(input) : IsMacros(input[k])
    THEN get_representation(
           input[CHOOSE k \in 1..Len(input) :
                   /\ IsMacros(input[k])
                   /\ \A j \in (k + 1)..Len(input) : ~IsMacros(input[j])])
    ELSE "None"

\* The file name of the line carries a representation other than the one
\* the MACROS line declared.
RepresentationsDiffer(lc) ==
  /\ GroupsOf(lc)[3] # "None"
  /\ MacrosRepresentation(parser.input) # "None"
  /\ _reps[GroupsOf(lc)[3]] # MacrosRepresentation(parser.input)

\* C15: a configuration-read line whose file name carries a representation
\* other than the one a MACROS line declared fails the parse with the
\* representation-mismatch error; otherwise that error is not raised.
C15_RepresentationMismatch ==
  [][(HirepLineRead /\ IsConfigRead(NewLine)) =>
       IF RepresentationsDiffer(NewLine)
         THEN parser'.pc = "failed" /\ parser'.error = "RepresentationMismatch"
         ELSE parser'.error # "RepresentationMismatch"]_vars

\* The value a configuration-read line gives for a dynamical-sector field
\* ("None" when its file name does not carry the field).
Supplied(lc, field) ==
  LET g == GroupsOf(lc) IN
  CASE field = "dynamical_representation"
         -> IF g[3] = "None" THEN "None" ELSE _reps[g[3]]
    [] field = "Nf" -> IF g[4] = "None" THEN "None" ELSE g[4]
    [] field = "beta" -> floatOf(g[5])
    [] field = "dynamical_mass" -> floatOf(g[6])

\* What the stored value of a field reads as.
Stored(field) ==
  IF field = "Nf" THEN Numerals[metadata[field] + 1] ELSE metadata[field]

\* The configuration-read lines processed so far that supplied the field.
Suppliers(field) ==
  {k \in 1..Len(parser.input) :
     /\ parser.trace[k] = "configuration"
     /\ Supplied(parser.input[k], field) # "None"}

\* C16: each dynamical-sector field holds the value of the first
\* configuration-read line that supplied it; later lines do not replace it.
C16_FirstWriteWins ==
  parser.name = "hirep" =>
    \A field \in {"dynamical_representation", "Nf", "beta", "dynamical_mass"} :
      Suppliers(field) # {} =>
        /\ field \in DOMAIN metadata
        /\ Stored(field) =
             Supplied(parser.input[CHOOSE k \in Suppliers(field) :
                                     \A j \in Suppliers(field) : k <= j], field)

\* C18: the file name of every configuration-read line of the log, with or
\* without the optional r and nf fields, is parsed without raising, and the
\* run name and configuration index in force are the ones it carries.
C18_FilenameAccepted ==
  (/\ parser.name = "hirep"
   /\ parser.input # <<>>
   /\ Len(parser.trace) = Len(parser.input)
   /\ IsConfigRead(parser.input[Len(parser.input)]))
  => /\ parser.trace[Len(parser.trace)] = "configuration"
     /\ parser.bound
     /\ parser.run_name = NamedRun(parser.input[Len(parser.input)])
     /\ parser.cfg_index = NamedCfg(parser.input[Len(parser.input)])

\* C19: a non-empty line of no known kind raises nothing and leaves the
\* metadata, the seen-set, the tracked configuration and the collection alone.
C19_OtherLinesIgnored ==
  [][(HirepLineRead /\ IsOther(NewLine)) =>
       /\ parser'.pc = "reading"
       /\ metadata' = metadata
       /\ correlators' = correlators
       /\ parser'.read_cfgs = parser.read_cfgs
       /\ parser'.bound = parser.bound
       /\ parser'.run_name = parser.run_name
       /\ parser'.cfg_index = parser.cfg_index]_vars

\* The positions of the data lines that were read without error, in order.
DataPositions ==
  SelectSeq([k \in 1..Len(parser.input) |-> k],
            LAMBDA k : parser.trace[k] = "data")

\* The configuration-read lines that precede position k.
ConfigsBefore(k) == {j \in 1..(k - 1) : IsConfigRead(parser.input[j])}

\* The (run_name, cfg_index) of the most recent configuration-read line
\* that precedes position k.
TrackedAt(k) ==
  LET j == CHOOSE j \in ConfigsBefore(k) : \A i \in ConfigsBefore(k) : i <= j
  IN <<NamedRun(parser.input[j]), NamedCfg(parser.input[j])>>

\* The (stream_name, cfg_index) of the rows, and how often a pair occurs.
RowPairs ==
  [i \in 1..Len(correlators) |->
     <<correlators[i].stream_name, correlators[i].cfg_index>>]
Occurrences(seq, x) == Cardinality({i \in 1..Len(seq) : seq[i] = x})

\* C21: there is one row per data line read, carrying the run_name and
\* cfg_index of the most recent configuration-read line before that data
\* line (in append order until the collection is frozen, in sorted order
\* after); a data line before the first configuration-read line gives no row.
C21_RowsUnderTrackedConfiguration ==
  parser.name = "hirep" =>
    /\ \A k \in 1..Len(parser.input) :
         (IsData(parser.input[k]) /\ ConfigsBefore(k) = {})
           => parser.trace[k] # "data"
    /\ Len(correlators) = Len(DataPositions)
    /\ LET expected == [i \in 1..Len(DataPositions) |-> TrackedAt(DataPositions[i])]
       IN IF frozen
            THEN \A i \in 1..Len(expected) :
                   Occurrences(RowPairs, expected[i])
                     = Occurrences(expected, expected[i])
            ELSE RowPairs = expected

\* Two configuration-read lines naming different configurations, then a data
\* line: its row carries the second one's run_name and cfg_index.
C21_Witness ==
  /\ parser.name = "hirep"
  /\ Len(parser.input) >= 3
  /\ IsConfigRead(parser.input[1]) /\ IsConfigRead(parser.input[2])
  /\ NamedRun(parser.input[1]) # NamedRun(parser.input[2])
  /\ parser.trace[3] = "data"
  /\ Len(correlators) >= 1
  /\ \E i \in 1..Len(correlators) :
       RowPairs[i] = <<NamedRun(parser.input[2]), NamedCfg(parser.input[2])>>

\* -------------------------------------------- second freeze, failed append
\* C22: freeze called on a frozen collection does not raise and leaves the
\* records, their order, the metadata and the frozen flag as they were.
C22_SecondFreezeNoOp ==
  [][(frozen /\ ret'.op = "freeze") =>
       /\ ret'.err = "none"
       /\ correlators' = correlators
       /\ metadata' = metadata
       /\ frozen' = frozen]_vars

\* freeze has been called on a frozen collection that holds two records
\* with the same sort key.
C22_Witness ==
  /\ frozen
  /\ ret.op = "freeze" /\ ret.err = "none" /\ ret.was_frozen
  /\ \E i, j \in 1..Len(correlators) :
       i # j /\ KeyTuple(correlators[i]) = KeyTuple(correlators[j])

\* C23: an append that fails (frozen collection, or mismatched length) leaves
\* the records, their order, the metadata and the frozen flag as they were,
\* and an append of a record of the right length that follows a failed one
\* on a still-open collection succeeds.
C23_FailedAppendNoEffect ==
  [][/\ (ret'.op = "append" /\ ret'.err # "none") =>
          /\ correlators' = correlators
          /\ heap' = heap
          /\ metadata' = metadata
          /\ frozen' = frozen
     /\ (/\ ret.op = "append" /\ ret.err # "none"
         /\ ~frozen
         /\ ret'.op = "append"
         /\ ret'.len = NTValue(correlators, heap)) =>
          /\ ret'.err = "none"
          /\ Len(correlators') = Len(correlators) + 1]_vars

\* An append of a record of the wrong length has just failed on an open
\* collection that holds records and has room for more.
C23_Witness ==
  /\ ~frozen
  /\ ret.op = "append" /\ ret.err = "LengthMismatch"
  /\ Len(correlators) \in 1..(MaxRecords - 1)
  /\ ret.len # NTValue(correlators, heap)

\* ------------------------------ Flexlatsim: loading into an open collection
MaxExisting == 1   \* rows the collection holds before the file is read
MaxNewLines == 2   \* lines of the file read into it

\* The rows an earlier load of the same stream has left in the collection.
ExistingProvenances ==
  {[stream_name |-> "runA", cfg_index |-> 1, source_type |-> "POINT",
    connection_type |-> "TRIPLET", channel |-> channels[st],
    valence_mass |-> "0.1"] : st \in RawStates}

NextFlexlatsimInto ==
  \/ /\ parser.name = "none"
     /\ Len(correlators) < MaxExisting
     /\ \E p \in ExistingProvenances, n \in 1..MaxLen : append(p, "ndarray", n)
     /\ UNCHANGED parser
  \/ /\ parser.name = "none"
     /\ read_correlators_flexlatsim("runA", "0.1", <<>>)
  \/ /\ parser.name = "flexlatsim"
     /\ Len(parser.input) < MaxNewLines
     /\ \E split_line \in Lines(Len(parser.input) + 1) : flexlatsim_line(split_line)
  \/ flexlatsim_end

SpecFlexlatsimInto == Init /\ [][NextFlexlatsimInto]_vars

\* C24: reading into an open collection, an accepted line whose stream,
\* trajectory and translated channel are those of a row the collection
\* already holds is skipped with a warning (or the parse fails at the flush
\* of the run pending before it), whatever the raw label of the channel is.
C24_ExistingTripleSkipped ==
  [][(LineRead /\ Filter(NewLine) = "accept" /\ Flushed(NewLine)) =>
       \/ parser'.trace[Len(parser'.trace)] = "duplicate"
       \/ parser'.pc = "failed" /\ parser'.error = "LengthMismatch"]_vars

====
